---- MODULE Spec2Model ----
(***************************************************************************)
(* Model of the storefront in src/main.py: the session cart, the checkout  *)
(* that turns a cart into a row of the Order table, and the administrator  *)
(* status update of an Order.                                              *)
(*                                                                         *)
(* The session (Flask's `session`, flask_login's current_user) is modelled *)
(* per browser session: user[s] is the logged-in account, cart[s] the      *)
(* list under session['cart'].  The key is either absent or holds a        *)
(* non-empty list (add_to_cart always appends, every removal pops the      *)
(* key), so the absent key is the empty sequence.                          *)
(*                                                                         *)
(* orders is the Order table; the primary key `id` of a row is its index.  *)
(* now is the wall clock in ticks, TicksPerSecond of them to a second.     *)
(*                                                                         *)
(* Spec serves one request at a time, each handler in one step.            *)
(* SpecThreaded adds the status update split at its commit (upd holds the  *)
(* row a thread has loaded and is about to write); with the whole-handler  *)
(* update beside it, every interleaving of two updates is covered.         *)
(* SpecAdmin is the administrator console: the admin pages, and a clock    *)
(* that moves in days around the 30-day window of the order queue.         *)
(***************************************************************************)
EXTENDS Integers, Sequences, FiniteSets, TLC

\* ---- bounds of the model ----
MaxClock == 2          \* the clock runs over 0..MaxClock ticks
TicksPerSecond == 2    \* sub-second resolution of datetime.now()
MaxCart == 1           \* most cart lines held by the sessions together
MaxOrders == 2         \* most rows of the Order table
MaxDays == 31          \* the calendar of SpecAdmin ends after this many days

\* ---- program constants ----
Pending == "pending_payment"   \* "待付款", the column default
Paid == "paid"                 \* "已付款"
Completed == "completed"       \* "已完成"
Cancelled == "cancelled"       \* any other label an administrator passes
Labels == {Pending, Paid, Completed, Cancelled}
NoTime == -1                   \* NULL in a DateTime column
NoUser == "anonymous"          \* no logged-in principal
WindowDays == 30               \* timedelta(days=30) in admin_orders
TicksPerDay == 24 * 60 * 60 * TicksPerSecond   \* a timedelta day

Users == {"alice", "admin"}
IsAdmin(u) == u = "admin"
Sessions == {"s1", "s2"}
Workers == {"w1"}
\* the form fields of add_to_cart: a label and an integer price
FormLines == {[item |-> "gem", price |-> 2]}
Methods == {"GET", "POST"}
Idle == [pc |-> "idle"]

VARIABLES orders, user, cart, now, upd, last
vars == <<orders, user, cart, now, upd, last>>

\* ---- pure helpers ----
RECURSIVE SumPrices(_)
\* sum(item['price'] for item in cart_list)
SumPrices(lines) ==
    IF lines = <<>> THEN 0 ELSE lines[1].price + SumPrices(Tail(lines))

\* json.dumps(cart_list): the list of objects as a flat token sequence
\* item, price, item, price, ...
RECURSIVE JsonDumps(_)
JsonDumps(lines) ==
    IF lines = <<>> THEN <<>>
    ELSE <<lines[1].item, lines[1].price>> \o JsonDumps(Tail(lines))

\* json.loads(items_json)
RECURSIVE JsonLoads(_)
JsonLoads(toks) ==
    IF Len(toks) < 2 THEN <<>>
    ELSE <<[item |-> toks[1], price |-> toks[2]]>> \o JsonLoads(SubSeq(toks, 3, Len(toks)))

\* datetime.now().strftime('%Y%m%d%H%M%S'): the time cut to whole seconds
OrderCode(t) == t \div TicksPerSecond

\* the primary keys Order.query.get finds
Ids == 1..Len(orders)
\* the cart lines the sessions ss hold together (what MaxCart bounds)
RECURSIVE LinesHeld(_)
LinesHeld(ss) ==
    IF ss = {} THEN 0
    ELSE LET s == CHOOSE x \in ss : TRUE IN Len(cart[s]) + LinesHeld(ss \ {s})
CodeTaken_Never(code) == FALSE
\* order_id is unique=True: a row with this code exists
CodeTaken(code) == \E i \in Ids : orders[i].order_id = code

\* the latest step, when it was a logout, a checkout or a request to an
\* admin route: the route and method of the request and the return
\* statement (or the exception) its handler ended with; any other step
\* resets the record
Req(op, method, code) == [op |-> op, method |-> method, code |-> code]
NoReq == Req("none", "none", "none")

Init ==
    /\ orders = <<>>
    /\ user = [s \in Sessions |-> NoUser]
    /\ cart = [s \in Sessions |-> <<>>]
    /\ now = 0
    /\ upd = [w \in Workers |-> Idle]
    /\ last = NoReq

\* the wall clock advances
Tick ==
    /\ now < MaxClock
    /\ now' = now + 1
    /\ last' = NoReq
    /\ UNCHANGED <<orders, user, cart, upd>>

\* POST /login: login_user on matching credentials, else a flash
Login(s, u, ok) ==
    /\ user' = IF ok THEN [user EXCEPT ![s] = u] ELSE user
    /\ last' = NoReq
    /\ UNCHANGED <<orders, cart, now, upd>>

Logout_KeepCart(s) ==
    /\ IF user[s] = NoUser
       THEN /\ last' = Req("logout", "GET", "to_login")
            /\ UNCHANGED <<user, cart>>
       ELSE /\ user' = [user EXCEPT ![s] = NoUser]
            /\ last' = Req("logout", "GET", "redirect_index")
            /\ UNCHANGED <<cart>>
    /\ UNCHANGED <<orders, now, upd>>

\* GET /logout; login_required sends an anonymous request to the login
\* view before the handler runs
Logout(s) ==
    /\ IF user[s] = NoUser
       THEN /\ last' = Req("logout", "GET", "to_login")
            /\ UNCHANGED <<user, cart>>
       ELSE /\ user' = [user EXCEPT ![s] = NoUser]
            /\ cart' = [cart EXCEPT ![s] = <<>>]
            /\ last' = Req("logout", "GET", "redirect_index")
    /\ UNCHANGED <<orders, now, upd>>

\* POST /add_to_cart (login_required)
AddToCart(s, line) ==
    /\ LinesHeld(Sessions) < MaxCart
    /\ cart' = IF user[s] = NoUser THEN cart
               ELSE [cart EXCEPT ![s] = Append(cart[s], line)]
    /\ last' = NoReq
    /\ UNCHANGED <<orders, user, now, upd>>

\* GET /clear_cart (no login_required)
ClearCart(s) ==
    /\ cart' = [cart EXCEPT ![s] = <<>>]
    /\ last' = NoReq
    /\ UNCHANGED <<orders, user, now, upd>>

Submits_Always(method) == TRUE
\* `if request.method == 'POST':` in checkout
Submits(method) == method = "POST"

CartIsEmpty_Never(cart_list) == FALSE
\* `if not cart_list:` in checkout
CartIsEmpty(cart_list) == cart_list = <<>>

NewOrder_Paid(s) ==
    [order_id |-> OrderCode(now),
     username |-> user[s],
     items_json |-> JsonDumps(cart[s]),
     total_price |-> SumPrices(cart[s]),
     status |-> Paid,
     completed_at |-> NoTime]

\* the Order row built by checkout, with the column defaults (created_at,
\* written once by its default and read only to sort listings, is left out)
NewOrder(s) ==
    [order_id |-> OrderCode(now),
     username |-> user[s],
     items_json |-> JsonDumps(cart[s]),
     total_price |-> SumPrices(cart[s]),
     status |-> Pending,
     completed_at |-> NoTime]

Checkout_PopBeforeCommit(s, method) ==
    /\ UNCHANGED <<user, now, upd>>
    /\ IF user[s] = NoUser
       THEN /\ last' = Req("checkout", method, "to_login")
            /\ UNCHANGED <<orders, cart>>
       ELSE IF CartIsEmpty(cart[s])
       THEN /\ last' = Req("checkout", method, "cart_empty")
            /\ UNCHANGED <<orders, cart>>
       ELSE IF Submits(method)
       THEN /\ Len(orders) < MaxOrders
            /\ IF CodeTaken(OrderCode(now))
               THEN /\ last' = Req("checkout", method, "integrity_error")
                    /\ cart' = [cart EXCEPT ![s] = <<>>]
                    /\ UNCHANGED orders
               ELSE /\ orders' = Append(orders, NewOrder(s))
                    /\ cart' = [cart EXCEPT ![s] = <<>>]
                    /\ last' = Req("checkout", method, "confirm")
       ELSE /\ last' = Req("checkout", method, "render")
            /\ UNCHANGED <<orders, cart>>

\* GET or POST /checkout.  The commit of the new row is the only access to
\* shared state, so the handler is one step also among concurrent requests.
\* A commit that violates the unique constraint on order_id raises, the
\* handler stops there (response 500) and the row is rolled back.
Checkout(s, method) ==
    /\ UNCHANGED <<user, now, upd>>
    /\ IF user[s] = NoUser
       THEN /\ last' = Req("checkout", method, "to_login")
            /\ UNCHANGED <<orders, cart>>
       ELSE IF CartIsEmpty(cart[s])
       THEN /\ last' = Req("checkout", method, "cart_empty")
            /\ UNCHANGED <<orders, cart>>
       ELSE IF Submits(method)
       THEN /\ Len(orders) < MaxOrders
            /\ IF CodeTaken(OrderCode(now))
               THEN /\ last' = Req("checkout", method, "integrity_error")
                    /\ UNCHANGED <<orders, cart>>
               ELSE /\ orders' = Append(orders, NewOrder(s))
                    /\ cart' = [cart EXCEPT ![s] = <<>>]
                    /\ last' = Req("checkout", method, "confirm")
       ELSE /\ last' = Req("checkout", method, "render")
            /\ UNCHANGED <<orders, cart>>

GuardRejects_Missing(new, status) == FALSE
GuardRejects_OnlyPending(new, status) == new = Completed /\ status = Pending
GuardRejects_OnlyCompleted(new, status) == new = Completed /\ status = Completed
\* `if new_status == "已完成" and order.status != "已付款":` on the loaded row
GuardRejects(new, status) == new = Completed /\ status # Paid

SetStatus_Retotal(order, new, t) ==
    [order EXCEPT !.status = new,
                  !.completed_at = IF new = Completed THEN t ELSE @,
                  !.total_price = 0]
\* `order.status = new_status` and, for "已完成", `order.completed_at =
\* datetime.now()`: the attributes the handler assigns on the row
SetStatus(order, new, t) ==
    [order EXCEPT !.status = new,
                  !.completed_at = IF new = Completed THEN t ELSE @]

\* GET /admin/update_order/<order_db_id>/<new_status>, served alone: the
\* whole handler in one step.
UpdateOrderStatus(s, id, new) ==
    /\ UNCHANGED <<user, cart, now, upd>>
    /\ IF user[s] = NoUser
       THEN /\ last' = Req("update", "GET", "to_login")
            /\ UNCHANGED orders
       ELSE IF ~IsAdmin(user[s])
       THEN /\ last' = Req("update", "GET", "403")
            /\ UNCHANGED orders
       ELSE IF id \notin Ids
       THEN /\ last' = Req("update", "GET", "no_order")
            /\ UNCHANGED orders
       ELSE IF GuardRejects(new, orders[id].status)
       THEN /\ last' = Req("update", "GET", "guard_rejected")
            /\ UNCHANGED orders
       ELSE /\ orders' = [orders EXCEPT ![id] = SetStatus(orders[id], new, now)]
            /\ last' = Req("update", "GET", "updated")

\* The same handler on a threaded server, up to the point where it holds
\* the pending write: the authorisation check, Order.query.get and the
\* guard on the loaded row (lines 215-219).
UpdateLoad(w, s, id, new) ==
    /\ upd[w] = Idle
    /\ UNCHANGED <<orders, user, cart, now>>
    /\ IF user[s] = NoUser
       THEN /\ last' = Req("update_load", "GET", "to_login")
            /\ UNCHANGED upd
       ELSE IF ~IsAdmin(user[s])
       THEN /\ last' = Req("update_load", "GET", "403")
            /\ UNCHANGED upd
       ELSE IF id \notin Ids
       THEN /\ last' = Req("update_load", "GET", "no_order")
            /\ UNCHANGED upd
       ELSE IF GuardRejects(new, orders[id].status)
       THEN /\ last' = Req("update_load", "GET", "guard_rejected")
            /\ UNCHANGED upd
       ELSE /\ upd' = [upd EXCEPT ![w] =
                          [pc |-> "commit", oid |-> id, new |-> new,
                           loaded |-> orders[id].status]]
            /\ last' = Req("update_load", "GET", "loaded")

\* The rest of that handler (lines 221-224): the attributes are set on the
\* loaded row and db.session.commit() sends one UPDATE of those that differ
\* from it; it is not conditioned on the stored status.
UpdateCommit(w) ==
    /\ upd[w].pc = "commit"
    /\ orders' = [orders EXCEPT
                     ![upd[w].oid].status =
                         IF upd[w].new # upd[w].loaded THEN upd[w].new ELSE @,
                     ![upd[w].oid].completed_at =
                         IF upd[w].new = Completed THEN now ELSE @]
    /\ upd' = [upd EXCEPT ![w] = Idle]
    /\ last' = Req("update_commit", "GET", "updated")
    /\ UNCHANGED <<user, cart, now>>

\* Days pass between two requests: the clock jumps to the edge of the
\* listing window of admin_orders or one day past it.
WaitDays == {WindowDays, WindowDays + 1}
Wait(days) ==
    /\ now + days * TicksPerDay <= MaxDays * TicksPerDay
    /\ now' = now + days * TicksPerDay
    /\ last' = NoReq
    /\ UNCHANGED <<orders, user, cart, upd>>

\* GET /admin: a non-administrator is sent to the index page
AdminDashboard(s) ==
    /\ UNCHANGED <<orders, user, cart, now, upd>>
    /\ last' = Req("admin_dashboard", "GET",
                   IF user[s] = NoUser THEN "to_login"
                   ELSE IF ~IsAdmin(user[s]) THEN "redirect_index"
                   ELSE "render")

\* GET /admin/users
AdminUsers(s) ==
    /\ UNCHANGED <<orders, user, cart, now, upd>>
    /\ last' = Req("admin_users", "GET",
                   IF user[s] = NoUser THEN "to_login"
                   ELSE IF ~IsAdmin(user[s]) THEN "403"
                   ELSE "render")

\* GET /admin/user/<username>/orders
AdminUserOrders(s, username) ==
    /\ UNCHANGED <<orders, user, cart, now, upd>>
    /\ last' = Req("admin_user_orders", "GET",
                   IF user[s] = NoUser THEN "to_login"
                   ELSE IF ~IsAdmin(user[s]) THEN "403"
                   ELSE "render")

\* Order.query.filter(Order.status != "已完成"): the rows selected (their
\* order in the list, by created_at, is left out)
PendingRows(os) == {i \in 1..Len(os) : os[i].status # Completed}

CompletedRows_NoWindow(os, t) == {i \in 1..Len(os) : os[i].status = Completed}
\* Order.query.filter(Order.status == "已完成", Order.completed_at >=
\* thirty_days_ago) for a request at time t; a NULL completed_at compares
\* as unknown and the row is not selected
CompletedRows(os, t) ==
    {i \in 1..Len(os) : /\ os[i].status = Completed
                        /\ os[i].completed_at # NoTime
                        /\ os[i].completed_at >= t - WindowDays * TicksPerDay}

\* the rendered admin/orders.html: the record of the request with the two
\* lists handed to the template
Page(pending, completed) ==
    [op |-> "admin_orders", method |-> "GET", code |-> "render",
     pending |-> pending, completed |-> completed]

\* GET /admin/orders
AdminOrders(s) ==
    /\ UNCHANGED <<orders, user, cart, now, upd>>
    /\ last' = IF user[s] = NoUser THEN Req("admin_orders", "GET", "to_login")
               ELSE IF ~IsAdmin(user[s]) THEN Req("admin_orders", "GET", "403")
               ELSE Page(PendingRows(orders), CompletedRows(orders, now))

Next ==
    \/ Tick
    \/ \E s \in Sessions, u \in Users, ok \in BOOLEAN : Login(s, u, ok)
    \/ \E s \in Sessions : Logout(s)
    \/ \E s \in Sessions, line \in FormLines : AddToCart(s, line)
    \/ \E s \in Sessions : ClearCart(s)
    \/ \E s \in Sessions, m \in Methods : Checkout(s, m)
    \/ \E s \in Sessions, id \in 1..MaxOrders, new \in Labels : UpdateOrderStatus(s, id, new)

\* one request at a time
Spec == Init /\ [][Next]_vars

\* Requests served by concurrent threads: the status update is split at its
\* commit, so another request can run between its load and its write.  The
\* ledger is what the threads share; one browser drives it (the second
\* session stays anonymous).
ThreadedSessions == {"s1"}
NextThreaded ==
    \/ Tick
    \/ \E s \in ThreadedSessions, u \in Users : Login(s, u, TRUE)
    \/ \E s \in ThreadedSessions : Logout(s)
    \/ \E s \in ThreadedSessions, line \in FormLines : AddToCart(s, line)
    \/ \E s \in ThreadedSessions : Checkout(s, "POST")
    \/ \E s \in ThreadedSessions, id \in 1..MaxOrders, new \in Labels :
          UpdateOrderStatus(s, id, new)
    \/ \E w \in Workers, s \in ThreadedSessions, id \in 1..MaxOrders, new \in Labels :
          UpdateLoad(w, s, id, new)
    \/ \E w \in Workers : UpdateCommit(w)

SpecThreaded == Init /\ [][NextThreaded]_vars

\* The administrator console over a calendar of days: one browser, the
\* read-only admin pages beside the checkout and the status update, and
\* waits of WaitDays days (the clock moves in whole days here).
AdminSessions == {"s1"}
NextAdmin ==
    \/ \E days \in WaitDays : Wait(days)
    \/ \E s \in AdminSessions, u \in Users : Login(s, u, TRUE)
    \/ \E s \in AdminSessions : Logout(s)
    \/ \E s \in AdminSessions, line \in FormLines : AddToCart(s, line)
    \/ \E s \in AdminSessions : Checkout(s, "POST")
    \/ \E s \in AdminSessions, id \in 1..MaxOrders, new \in Labels :
          UpdateOrderStatus(s, id, new)
    \/ \E s \in AdminSessions : AdminDashboard(s)
    \/ \E s \in AdminSessions : AdminUsers(s)
    \/ \E s \in AdminSessions, u \in Users : AdminUserOrders(s, u)
    \/ \E s \in AdminSessions : AdminOrders(s)

SpecAdmin == Init /\ [][NextAdmin]_vars
\* ---- the claims ----
\* a logged-in session POSTs checkout with a non-empty cart
CheckoutSubmit(s) ==
    /\ last'.op = "checkout" /\ user[s] # NoUser /\ cart[s] # <<>>
    /\ Checkout(s, "POST")
\* an administrator's whole update_order_status request on an existing Order
AdminUpdate(s, id, new) ==
    /\ last'.op = "update" /\ IsAdmin(user[s]) /\ id \in Ids
    /\ UpdateOrderStatus(s, id, new)
DistinctCodes(os) ==
    \A i, j \in 1..Len(os) : i # j => os[i].order_id # os[j].order_id

\* C1: every POST to checkout by a logged-in principal with a non-empty
\* cart adds exactly one Order whose total_price is the sum of the cart's
\* prices and whose line items are the cart's lines in order, and leaves
\* the session cart empty.
C1_CheckoutCreatesOrder ==
    [][\A s \in Sessions :
          CheckoutSubmit(s)
          => /\ Len(orders') = Len(orders) + 1
             /\ SubSeq(orders', 1, Len(orders)) = orders
             /\ orders'[Len(orders')].total_price = SumPrices(cart[s])
             /\ JsonLoads(orders'[Len(orders')].items_json) = cart[s]
             /\ cart'[s] = <<>>]_vars

\* C2: a checkout request, GET or POST, of a session whose cart is empty
\* (absent) changes neither the Order table nor any cart.
C2_EmptyCartCheckout ==
    [][\A s \in Sessions, m \in Methods :
          (last'.op = "checkout" /\ cart[s] = <<>> /\ Checkout(s, m))
          => (orders' = orders /\ cart' = cart)]_vars
\* a logged-in principal with an empty cart has just POSTed checkout and
\* been sent back to the cart view, with an Order already in the table
C2_Witness ==
    /\ last = Req("checkout", "POST", "cart_empty")
    /\ \E s \in Sessions : user[s] # NoUser /\ cart[s] = <<>>
    /\ orders # <<>>

\* C3: in every reachable state each Order has completed_at present exactly
\* when its status is completed.
C3_CompletedAtIffCompleted ==
    \A i \in Ids : (orders[i].completed_at # NoTime) <=> (orders[i].status = Completed)

\* C4: an administrator's update to completed of an Order whose status is
\* not paid changes nothing in the Order table.
C4_CompletionGuard ==
    [][\A s \in Sessions, id \in 1..MaxOrders :
          (AdminUpdate(s, id, Completed) /\ orders[id].status # Paid)
          => orders' = orders]_vars
\* an update to completed has just been refused on the one Order of the
\* table, which is pending_payment and has no completed_at
C4_Witness ==
    /\ last = Req("update", "GET", "guard_rejected")
    /\ Len(orders) = 1
    /\ orders[1].status = Pending
    /\ orders[1].completed_at = NoTime

\* C5: an administrator's update to completed of a paid Order makes it
\* completed and stamps completed_at with the current time; the same update
\* of an Order that is already completed is answered with the redirect and
\* changes nothing (no second write of completed_at).
C5_CompleteOnce ==
    [][\A s \in Sessions, id \in 1..MaxOrders :
          AdminUpdate(s, id, Completed)
          => /\ orders[id].status = Paid
                => /\ orders'[id].status = Completed
                   /\ orders'[id].completed_at = now
             /\ orders[id].status = Completed
                => /\ orders' = orders
                   /\ last'.code = "guard_rejected"]_vars
\* a second update to completed has just been refused on the one Order of
\* the table, which is completed with a stamp older than the clock
C5_Witness ==
    /\ last = Req("update", "GET", "guard_rejected")
    /\ Len(orders) = 1
    /\ orders[1].status = Completed
    /\ orders[1].completed_at # NoTime
    /\ orders[1].completed_at < now

\* position of a status on the path pending_payment -> paid -> completed
Rank(status) == IF status = Pending THEN 1 ELSE IF status = Paid THEN 2 ELSE 3
OnPath == {Pending, Paid, Completed}

\* C6 (as claimed): no step moves an Order from a status on the path
\* pending_payment -> paid -> completed to an earlier status of the path.
C6_Monotonic ==
    [][\A id \in Ids :
          (orders[id].status \in OnPath /\ orders'[id].status \in OnPath)
          => Rank(orders'[id].status) >= Rank(orders[id].status)]_vars
\* C6 (amended): an Order's status changes to completed only through an
\* update request to completed that loaded the Order with status paid; no
\* other ordering of the statuses is enforced.
C6_CompletedOnlyFromLoadedPaid ==
    [][\A id \in Ids :
          (orders[id].status # Completed /\ orders'[id].status = Completed)
          => \/ /\ \E s \in Sessions : AdminUpdate(s, id, Completed)
                /\ orders[id].status = Paid
             \/ \E w \in Workers :
                   /\ UpdateCommit(w)
                   /\ upd[w].oid = id /\ upd[w].new = Completed
                   /\ upd[w].loaded = Paid]_vars
\* an update to completed that was split at its commit has just completed
\* the one Order of the table
C6_Witness ==
    /\ last = Req("update_commit", "GET", "updated")
    /\ Len(orders) = 1
    /\ orders[1].status = Completed

\* C7: once completed_at of an Order is set, no step changes its value.
C7_CompletedAtWrittenOnce ==
    [][\A id \in Ids :
          orders[id].completed_at # NoTime
          => orders'[id].completed_at = orders[id].completed_at]_vars

\* C8: every checkout POST of a non-empty cart, whatever the other
\* checkouts of the same clock second, produces an Order, and the order
\* codes of the table are pairwise distinct.
C8_AllCheckoutsGetDistinctCodes ==
    [][\A s \in Sessions :
          CheckoutSubmit(s)
          => (Len(orders') = Len(orders) + 1 /\ DistinctCodes(orders'))]_vars

\* C9: a checkout request either adds an Order and empties the session
\* cart, or changes neither the Order table nor any cart; when the commit is
\* refused because the order code exists, it is the latter.
C9_AllOrNothing ==
    [][\A s \in Sessions, m \in Methods :
          (last'.op = "checkout" /\ Checkout(s, m))
          => /\ \/ orders' = orders /\ cart' = cart
                \/ /\ Len(orders') = Len(orders) + 1
                   /\ cart'[s] = <<>>
                   /\ \A x \in Sessions \ {s} : cart'[x] = cart[x]
             /\ (cart[s] # <<>> /\ CodeTaken(OrderCode(now)))
                => (orders' = orders /\ cart' = cart)]_vars
\* a commit has just been refused and a cart still holds its line
C9_Witness ==
    /\ last = Req("checkout", "POST", "integrity_error")
    /\ \E s \in Sessions : user[s] # NoUser /\ cart[s] # <<>>
    /\ Len(orders) = 1

\* C10: whenever a step writes an Order as completed, the stored status of
\* that Order just before the write is paid, and the write sets
\* completed_at along with the status.
C10_GuardAndWriteAtomic ==
    [][\A id \in Ids :
          (orders'[id] # orders[id] /\ orders'[id].status = Completed)
          => /\ orders[id].status = Paid
             /\ orders'[id].completed_at # NoTime]_vars

\* a logged-in account whose is_admin flag is false
NonAdmin(s) == user[s] # NoUser /\ ~IsAdmin(user[s])
\* a request of session s to one of the five admin routes
AdminOperation(s) ==
    \/ AdminDashboard(s)
    \/ AdminUsers(s)
    \/ \E u \in Users : AdminUserOrders(s, u)
    \/ AdminOrders(s)
    \/ \E id \in 1..MaxOrders, new \in Labels : UpdateOrderStatus(s, id, new)

\* C11: every admin operation requested by a logged-in non-administrator is
\* answered with the authorization error (403, not a redirect) and leaves
\* the Order table unchanged.  (The accounts are the fixed set Users; no
\* admin route writes to them.)
C11_NonAdminGets403 ==
    [][\A s \in Sessions :
          NonAdmin(s) /\ AdminOperation(s)
              => last'.code = "403" /\ orders' = orders]_vars

\* C12: the cart a principal sees or checks out holds only lines this same
\* principal added.  A line enters cart[s] only through add_to_cart under
\* the account logged in on s, and leaves it only with the whole cart; so
\* the lines of a cart are its account's own exactly when no step hands a
\* non-empty cart to another account: on every step, a session whose cart
\* is non-empty afterwards has the account it had before.  (An Order takes
\* its lines from cart[s] and its owner from user[s] in one step.)
C12_CartIsolation ==
    [][\A s \in Sessions : cart'[s] # <<>> => user'[s] = user[s]]_vars

\* C13: no step removes an Order or changes the order code, owner, line
\* items or total_price of an existing one; a step that changes the status
\* or completed_at of an Order is an update_order_status request for it.
C13_OrderFrame ==
    [][\/ orders' = orders
       \/ /\ Len(orders') >= Len(orders)
          /\ \A i \in Ids :
                /\ orders'[i].order_id = orders[i].order_id
                /\ orders'[i].username = orders[i].username
                /\ orders'[i].items_json = orders[i].items_json
                /\ orders'[i].total_price = orders[i].total_price
                /\ (\/ orders'[i].status # orders[i].status
                    \/ orders'[i].completed_at # orders[i].completed_at)
                      => \E s \in Sessions, new \in Labels :
                            UpdateOrderStatus(s, i, new)]_vars
\* an Order that went through both status updates while a later one exists
C13_Witness ==
    /\ last = Req("update", "GET", "updated")
    /\ Len(orders) = 2
    /\ orders[1].status = Completed /\ orders[1].completed_at # NoTime
    /\ orders[1].items_json # <<>>
    /\ orders[1].total_price = SumPrices(JsonLoads(orders[1].items_json))

\* C14: every row a step adds to the Order table is added by a checkout and
\* has status pending_payment and no completed_at.
C14_NewOrderIsPending ==
    [][Len(orders') > Len(orders)
          => /\ last'.op = "checkout"
             /\ \A i \in (Len(orders) + 1)..Len(orders') :
                   orders'[i].status = Pending /\ orders'[i].completed_at = NoTime]_vars
\* the administrator's own checkout has just created the second Order
C14_Witness ==
    /\ last = Req("checkout", "POST", "confirm")
    /\ Len(orders) = 2
    /\ orders[2].username = "admin"
    /\ orders[2].status = Pending /\ orders[2].completed_at = NoTime

\* C15: no two rows of the Order table have the same order_id.
C15_UniqueOrderCodes == DistinctCodes(orders)
\* two Orders checked out in consecutive seconds
C15_Witness ==
    /\ Len(orders) = 2
    /\ orders[2].order_id = orders[1].order_id + 1
\* the time between the completion of row i and time t
Age(os, i, t) == t - os[i].completed_at

\* C16: on a rendered admin order queue the pending list holds exactly the
\* Orders whose status is not completed, the completed list exactly the
\* Orders with status completed that were completed at most 30 days before
\* the request (so not one completed 31 days before it, and one
\* completed at the time of the request), and no Order is in both lists.
C16_QueueSplit ==
    (last.op = "admin_orders" /\ last.code = "render")
        => /\ \A i \in Ids : i \in last.pending <=> orders[i].status # Completed
           /\ \A i \in Ids :
                 i \in last.completed
                     <=> /\ orders[i].status = Completed
                         /\ orders[i].completed_at # NoTime
                         /\ Age(orders, i, now) >= 0
                         /\ Age(orders, i, now) <= 30 * 24 * 60 * 60 * TicksPerSecond
           /\ last.pending \cup last.completed \subseteq Ids
           /\ last.pending \cap last.completed = {}
\* the queue rendered with one Order completed 31 days before and one
\* completed at the time of the request
C16_Witness ==
    /\ last.op = "admin_orders" /\ last.code = "render"
    /\ Len(orders) = 2
    /\ orders[1].status = Completed /\ orders[2].status = Completed
    /\ Age(orders, 1, now) = 31 * 24 * 60 * 60 * TicksPerSecond
    /\ Age(orders, 2, now) = 0
    /\ last.completed = {2} /\ last.pending = {}
\* C17: a GET of /checkout by a logged-in session with a non-empty cart
\* renders the page, creates no Order and leaves the cart as it is; a step
\* that adds an Order is a POST.
C17_GetOnlyDisplays ==
    [][/\ \A s \in Sessions :
             (/\ last'.op = "checkout" /\ last'.method = "GET"
              /\ user[s] # NoUser /\ cart[s] # <<>>
              /\ Checkout(s, "GET"))
                 => /\ last'.code = "render"
                    /\ orders' = orders
                    /\ cart' = cart
       /\ Len(orders') > Len(orders) => last'.method = "POST"]_vars
\* the checkout page was just shown for a filled cart, no Order exists
C17_Witness ==
    /\ last = Req("checkout", "GET", "render")
    /\ \E s \in Sessions : user[s] # NoUser /\ cart[s] # <<>>
    /\ orders = <<>>

\* C18: a session with no logged-in account holds no cart.
C18_AnonymousHasNoCart ==
    \A s \in Sessions : user[s] = NoUser => cart[s] = <<>>
\* a logout has just ended the last login, after an Order was placed
C18_Witness ==
    /\ last = Req("logout", "GET", "redirect_index")
    /\ \A s \in Sessions : user[s] = NoUser /\ cart[s] = <<>>
    /\ orders # <<>>
====
